---- MODULE Spec2Model ----
(***************************************************************************)
(* HTTPEEWClient (src/src/client/http.py): the polling loop, one fetch     *)
(* task with its retries, the diff of a feed snapshot against the known    *)
(* alerts, and the broadcast of new / update / lift to the notification    *)
(* clients.  asyncio runs one coroutine at a time, so every action below   *)
(* is the code between two awaits.                                         *)
(***************************************************************************)
EXTENDS Integers, Sequences, FiniteSets, TLC

\* ------------------------------------------------------------------ bounds
NumIds == 2
MaxSerial == 2

\* the argument of self._get_request(3) in _loop
Retry == 3

Ids == 1..NumIds
Serials == 1..MaxSerial
\* self._notification_client: the notification clients of the repository
Backends == {"discord", "line"}

\* One element of the JSON list returned by the feed: d["id"], d["serial"].
\* Whether the rest of the payload lets EEW.from_dict build a record is
\* read only by from_dict, and is drawn where from_dict is called.
Entry == [id : Ids, serial : Serials]

\* The feed lists every active alert once: a snapshot is a list of entries
\* with distinct ids (the empty list included).
Snapshots ==
    {s \in UNION {[1..n -> Entry] : n \in 0..NumIds} :
        \A i, j \in DOMAIN s : i # j => s[i].id # s[j].id}

NoEvent == [kind |-> "none", id |-> 0, serial |-> 0]

VARIABLES
    alerts,     \* self._alerts: id -> serial of the stored EEW, 0 = no entry
    task,       \* self.__task: "MISSING", "pending" or "done"
    pc,         \* where the fetch task is suspended
    retry,      \* the retry argument of the running _get_request call
    data,       \* the list returned by r.json()
    idx,        \* position of the for loop over data (1-based)
    finished,   \* _check_finished_alerts
    event,      \* the event whose asyncio.gather is being awaited
    calls,      \* state of the gathered coroutine of every client
    outcome,    \* how the fetch task ended
    inflight,   \* number of fetch tasks created and not yet finished
    attempts,   \* session.get calls made by the current task
    fails,      \* how many of them raised
    emitted,    \* events broadcast by the current task, in order
    start,      \* self._alerts when the current task was created
    announced,  \* id -> a new was broadcast and no lift since
    calc_ops    \* what the awaited broadcast's new_alert / update_alert did
                \* to the _calc_task of the records, in order

vars == <<alerts, task, pc, retry, data, idx, finished, event, calls, outcome,
          inflight, attempts, fails, emitted, start, announced, calc_ops>>

Known(a) == {i \in Ids : a[i] # 0}

IdsOf(s) == {s[i].id : i \in DOMAIN s}

Idle == [b \in Backends |-> "idle"]

\* State of DiscordNotification (src/src/notify/discord.py), described with
\* its handlers below.

MaxGen == 2
NumChannels == 2

\* self.notification_channels, in the order of the configuration
Channels == 1..NumChannels

NoSet == [o |-> 0, ver |-> 0, map |-> 0, msgs |-> {}, ups |-> 0]
NoSend == [id |-> 0, ver |-> 0]
NoEdit == [id |-> 0, o |-> 0, ver |-> 0, msgs |-> {}, up |-> FALSE]

VARIABLES
    d_alerts,   \* DiscordNotification.alerts: id -> the EEWMessages stored,
                \*   o: the object, ver: its eew, map: the version whose map
                \*   map_url points to (0 = None), msgs: the channels whose
                \*   message it holds, ups: maps of ver uploaded so far
    d_gen,      \* EEW objects received so far
    d_send,     \* the send_eew awaiting EEWMessages.send
    d_loop,     \* the loop task: "none" (not running), "sleep", "iter"
                \*   (in the for loop, between edits), "upload" (awaiting
                \*   the edit with the file), "gather" (awaiting the gather)
    d_stop,     \* Loop._stop_next_iteration
    d_end,      \* how the loop task ended the last time
    d_iter,     \* the dict iterator: size of the dict when it was made and
                \*   the last object it yielded
    d_edit      \* the EEWMessages.edit being awaited

dvars == <<d_alerts, d_gen, d_send, d_loop, d_stop, d_end, d_iter, d_edit>>

DiscordInit ==
    /\ d_alerts = [i \in Ids |-> NoSet]
    /\ d_gen = 0
    /\ d_send = NoSend
    /\ d_loop = "none"
    /\ d_stop = FALSE
    /\ d_end = "none"
    /\ d_iter = [size |-> 0, last |-> 0]
    /\ d_edit = NoEdit

\* State of the rendering of the countdown (EEWMessages.intensity_embed) and
\* of two DiscordNotification / LineNotification instances, described with
\* their actions below.  Times are counted in units of 1/Res second.

Res == 2
MaxTime == 6
MaxPing == 3

\* bot.latency when no heartbeat has been acknowledged: float("inf")
Inf == MaxPing + 1

Instances == {"bot1", "bot2"}

VARIABLES
    r_now,      \* datetime.now().timestamp() at the last rendering
    r_ping,     \* self.bot.latency
    r_cur,      \* current_time of the last rendering
    r_shown,    \* what the last rendering shows for the region: "pending",
                \*   "arrived", or "none" (region left out, or no rendering)
    r_eew       \* the region's entry of city_max_intensity: s_time of
                \*   distance and value of intensity

rvars == <<r_now, r_ping, r_cur, r_shown, r_eew>>

VARIABLES
    s_alerts,   \* DiscordNotification.alerts, the dict of the class
                \*   attribute: id -> [by: the bot of the EEWMessages,
                \*   serial: of its eew] or NoEntry
    s_channels, \* DiscordNotification.notification_channels, the list of
                \*   the class attribute: the instances whose channel is in
                \*   it, in the order of the appends
    s_line,     \* LineNotification.notification_channels, likewise
    s_by,       \* the instance that ran last
    s_op        \* and what it ran

svars == <<s_alerts, s_channels, s_line, s_by, s_op>>

RenderInit ==
    /\ r_now = 0
    /\ r_ping = Inf
    /\ r_cur = 0
    /\ r_shown = "none"
    /\ r_eew = [s_time |-> 0, value |-> 0]

NoEntry == [by |-> "none", serial |-> 0]

SharedInit ==
    /\ s_alerts = [i \in Ids |-> NoEntry]
    /\ s_channels = <<>>
    /\ s_line = <<>>
    /\ s_by = "none"
    /\ s_op = "none"

Init ==
    /\ alerts = [i \in Ids |-> 0]
    /\ task = "MISSING"
    /\ pc = "idle"
    /\ retry = 0
    /\ data = <<>>
    /\ idx = 0
    /\ finished = {}
    /\ event = NoEvent
    /\ calls = Idle
    /\ outcome = "none"
    /\ inflight = 0
    /\ attempts = 0
    /\ fails = 0
    /\ emitted = <<>>
    /\ start = [i \in Ids |-> 0]
    /\ announced = [i \in Ids |-> FALSE]
    /\ calc_ops = <<>>
    /\ DiscordInit
    /\ RenderInit
    /\ SharedInit

\* ------------------------------------------------------------------ _loop

\* faulty variants of CanStart: a tick that never looks at the task, and a
\* loop that gives up once a fetch task has raised
CanStartAlways(t) == TRUE

CanStartUnlessRaised(t) ==
    t = "MISSING" \/ (t = "done" /\ outcome \notin {"record_error", "backend_error"})

\* `not self.__task or self.__task.done()`
CanStart(t) == t = "MISSING" \/ t = "done"

\* One iteration of `while True` in _loop: create the fetch task or skip.
loop ==
    IF CanStart(task)
    THEN /\ task' = "pending"
         /\ inflight' = inflight + 1
         /\ pc' = "get"
         /\ retry' = Retry
         /\ data' = <<>>
         /\ idx' = 0
         /\ finished' = {}
         /\ event' = NoEvent
         /\ calls' = Idle
         /\ outcome' = "none"
         /\ attempts' = 0
         /\ fails' = 0
         /\ emitted' = <<>>
         /\ start' = alerts
         /\ calc_ops' = <<>>
         /\ UNCHANGED <<alerts, announced>>
    ELSE UNCHANGED vars

\* The coroutine of the fetch task returns or raises: the task is done.
Return(o) ==
    /\ pc' = "done"
    /\ task' = "done"
    /\ inflight' = inflight - 1
    /\ outcome' = o

\* ----------------------------------------------------------- _get_request

\* Position after the for loop over data has advanced to entry i.
After(i) == IF i > Len(data) THEN "lift" ELSE "diff"

\* session.get and r.json() succeed with the list s.
get_response ==
    /\ pc = "get"
    /\ \E s \in Snapshots :
        /\ attempts' = attempts + 1
        /\ data' = s
        /\ IF s = <<>>
           THEN /\ Return("empty")
                /\ UNCHANGED <<idx, finished>>
           ELSE /\ finished' = Known(alerts)
                /\ idx' = 1
                /\ pc' = "diff"
                /\ UNCHANGED <<task, inflight, outcome>>
    /\ UNCHANGED <<alerts, retry, event, calls, fails, emitted, start, announced,
                   calc_ops>>

\* faulty variant of ShouldRetry: one retry too many
ShouldRetryAtZero(r) == r >= 0

\* `if retry > 0`
ShouldRetry(r) == r > 0

\* faulty variant of get_exception: the exhausted poll goes on as if the
\* feed were empty
get_exception_as_empty ==
    /\ pc = "get"
    /\ attempts' = attempts + 1
    /\ fails' = fails + 1
    /\ IF ShouldRetry(retry)
       THEN /\ retry' = retry - 1
            /\ UNCHANGED <<pc, finished>>
       ELSE /\ finished' = Known(alerts)
            /\ pc' = "lift"
            /\ UNCHANGED retry
    /\ UNCHANGED <<alerts, task, data, idx, event, calls, outcome, inflight,
                   emitted, start, announced, calc_ops>>

\* session.get or r.json() raises: recreate the session and call
\* _get_request(retry - 1), or log and return.
get_exception ==
    /\ pc = "get"
    /\ attempts' = attempts + 1
    /\ fails' = fails + 1
    /\ IF ShouldRetry(retry)
       THEN /\ retry' = retry - 1
            /\ UNCHANGED <<pc, task, inflight, outcome>>
       ELSE /\ Return("exhausted")
            /\ UNCHANGED retry
    /\ UNCHANGED <<alerts, data, idx, finished, event, calls, emitted, start,
                   announced, calc_ops>>

\* EEW.from_dict(data) on a payload that is well formed (ok) or not:
\* the record, or an exception.
from_dict_raises(d, ok) == ~ok

\* faulty variants of Classify: an unknown id taken for an update, and a
\* comparison of serials with > in place of !=
ClassifyUnknownAsUpdate(a, d) ==
    IF a[d.id] = 0 THEN "update"
    ELSE IF a[d.id] # d.serial THEN "update" ELSE "none"

ClassifyGreater(a, d) ==
    IF a[d.id] = 0 THEN "new"
    ELSE IF d.serial > a[d.id] THEN "update" ELSE "none"

\* `if eew is None` / `elif eew.serial != d["serial"]` on eew = _alerts.get(id)
Classify(a, d) ==
    IF a[d.id] = 0 THEN "new"
    ELSE IF a[d.id] # d.serial THEN "update" ELSE "none"

\* asyncio.gather(*(c.<handler>(eew) for c in self._notification_client), ...)
\* is awaited for the event e.
Gather(e) ==
    /\ event' = e
    /\ calls' = [b \in Backends |-> "running"]
    /\ emitted' = Append(emitted, e)
    /\ announced' = [announced EXCEPT ![e.id] = (e.kind # "lift")]
    /\ pc' = "gather"

\* faulty variant of new_alert: the record is not yet stored when send_eew
\* is broadcast
new_alert_store_late(d, ok) ==
    IF from_dict_raises(d, ok)
    THEN /\ Return("record_error")
         /\ UNCHANGED <<alerts, event, calls, emitted, announced, calc_ops>>
    ELSE /\ calc_ops' = <<[op |-> "start", serial |-> d.serial]>>
         /\ Gather([kind |-> "new", id |-> d.id, serial |-> d.serial])
         /\ UNCHANGED <<alerts, task, inflight, outcome>>

\* new_alert(data): build the record, store it under its id, start its
\* computation (calc_all_data_in_executor), broadcast send_eew; a from_dict
\* exception leaves the coroutine.
new_alert(d, ok) ==
    IF from_dict_raises(d, ok)
    THEN /\ Return("record_error")
         /\ UNCHANGED <<alerts, event, calls, emitted, announced, calc_ops>>
    ELSE /\ alerts' = [alerts EXCEPT ![d.id] = d.serial]
         /\ calc_ops' = <<[op |-> "start", serial |-> d.serial]>>
         /\ Gather([kind |-> "new", id |-> d.id, serial |-> d.serial])
         /\ UNCHANGED <<task, inflight, outcome>>

\* faulty variant of update_alert: the new computation is started before
\* the old one is cancelled
update_alert_start_first(d, ok) ==
    IF from_dict_raises(d, ok)
    THEN /\ Return("record_error")
         /\ UNCHANGED <<alerts, event, calls, emitted, announced, calc_ops>>
    ELSE /\ alerts' = [alerts EXCEPT ![d.id] = d.serial]
         /\ calc_ops' = <<[op |-> "start", serial |-> d.serial]>>
                        \o (IF alerts[d.id] # 0
                            THEN <<[op |-> "cancel", serial |-> alerts[d.id]]>>
                            ELSE <<>>)
         /\ Gather([kind |-> "update", id |-> d.id, serial |-> d.serial])
         /\ UNCHANGED <<task, inflight, outcome>>

\* update_alert(data): build the record, replace the stored one, cancel the
\* _calc_task of the old record (`if old_eew is not None`), start the
\* computation of the new one, broadcast update_eew; a from_dict exception
\* leaves the coroutine.
update_alert(d, ok) ==
    IF from_dict_raises(d, ok)
    THEN /\ Return("record_error")
         /\ UNCHANGED <<alerts, event, calls, emitted, announced, calc_ops>>
    ELSE /\ alerts' = [alerts EXCEPT ![d.id] = d.serial]
         /\ calc_ops' = (IF alerts[d.id] # 0
                         THEN <<[op |-> "cancel", serial |-> alerts[d.id]]>>
                         ELSE <<>>)
                        \o <<[op |-> "start", serial |-> d.serial]>>
         /\ Gather([kind |-> "update", id |-> d.id, serial |-> d.serial])
         /\ UNCHANGED <<task, inflight, outcome>>

\* lift_alert(eew): broadcast lift_eew for the popped record.
lift_alert(id, serial) ==
    /\ calc_ops' = <<>>
    /\ Gather([kind |-> "lift", id |-> id, serial |-> serial])

\* One iteration of `for d in data`.
diff ==
    /\ pc = "diff"
    /\ LET d == data[idx]
           k == Classify(alerts, d) IN
        /\ finished' = finished \ {d.id}
        /\ CASE k = "new" ->
                /\ \E ok \in BOOLEAN : new_alert(d, ok)
                /\ UNCHANGED idx
             [] k = "update" ->
                /\ \E ok \in BOOLEAN : update_alert(d, ok)
                /\ UNCHANGED idx
             [] OTHER ->
                /\ idx' = idx + 1
                /\ pc' = After(idx + 1)
                /\ UNCHANGED <<alerts, task, event, calls, outcome, inflight,
                               emitted, announced, calc_ops>>
    /\ UNCHANGED <<retry, data, attempts, fails, start>>

\* faulty variant of return_exceptions: gather hands the first exception on
return_exceptions_off(kind) == FALSE

\* return_exceptions=True of the three gather calls
return_exceptions(kind) == TRUE

\* The handler of client b returns or raises.
handler_done(b) ==
    /\ pc = "gather"
    /\ calls[b] = "running"
    /\ \E r \in {"returned", "raised"} :
        /\ calls' = [calls EXCEPT ![b] = r]
        /\ IF r = "raised" /\ ~return_exceptions(event.kind)
           THEN Return("backend_error")
           ELSE UNCHANGED <<pc, task, inflight, outcome>>
    /\ UNCHANGED <<alerts, retry, data, idx, finished, event, attempts, fails,
                   emitted, start, announced, calc_ops>>

\* faulty variant of gather_returns: the await ends with the first handler
\* that finishes
gather_returns_first ==
    /\ pc = "gather"
    /\ \E b \in Backends : calls[b] # "running"
    /\ IF event.kind = "lift"
       THEN /\ pc' = "lift"
            /\ UNCHANGED idx
       ELSE /\ idx' = idx + 1
            /\ pc' = After(idx + 1)
    /\ event' = NoEvent
    /\ calls' = Idle
    /\ calc_ops' = <<>>
    /\ UNCHANGED <<alerts, task, retry, data, finished, outcome, inflight,
                   attempts, fails, emitted, start, announced>>

\* Every gathered handler has finished: the await of gather returns.
gather_returns ==
    /\ pc = "gather"
    /\ \A b \in Backends : calls[b] # "running"
    /\ IF event.kind = "lift"
       THEN /\ pc' = "lift"
            /\ UNCHANGED idx
       ELSE /\ idx' = idx + 1
            /\ pc' = After(idx + 1)
    /\ event' = NoEvent
    /\ calls' = Idle
    /\ calc_ops' = <<>>
    /\ UNCHANGED <<alerts, task, retry, data, finished, outcome, inflight,
                   attempts, fails, emitted, start, announced>>

\* One iteration of `for id in _check_finished_alerts` (a set: any order),
\* or the end of the coroutine when the set is exhausted.
remove_finished ==
    /\ pc = "lift"
    /\ IF finished = {}
       THEN /\ Return("ok")
            /\ UNCHANGED <<alerts, finished, event, calls, emitted, announced,
                           calc_ops>>
       ELSE \E id \in finished :
            /\ finished' = finished \ {id}
            /\ alerts' = [alerts EXCEPT ![id] = 0]
            /\ IF alerts[id] # 0
               THEN lift_alert(id, alerts[id])
               ELSE UNCHANGED <<pc, event, calls, emitted, announced, calc_ops>>
            /\ UNCHANGED <<task, inflight, outcome>>
    /\ UNCHANGED <<retry, data, idx, attempts, fails, start>>

Next ==
    \/ loop /\ UNCHANGED <<dvars, rvars, svars>>
    \/ get_response /\ UNCHANGED <<dvars, rvars, svars>>
    \/ get_exception /\ UNCHANGED <<dvars, rvars, svars>>
    \/ diff /\ UNCHANGED <<dvars, rvars, svars>>
    \/ \E b \in Backends : handler_done(b) /\ UNCHANGED <<dvars, rvars, svars>>
    \/ gather_returns /\ UNCHANGED <<dvars, rvars, svars>>
    \/ remove_finished /\ UNCHANGED <<dvars, rvars, svars>>

Spec == Init /\ [][Next]_<<vars, dvars, rvars, svars>>

\* asyncio.sleep(1) always returns: the loop keeps iterating.
FairSpec == Spec /\ WF_<<vars, dvars, rvars, svars>>(loop /\ UNCHANGED <<dvars, rvars, svars>>)

\* ------------------------------------------------------------------------
\* DiscordNotification and EEWMessages (src/src/notify/discord.py): the
\* registry `alerts`, the three handlers called by the client (one at a
\* time: the client awaits each broadcast), and update_eew_messages_loop, a
\* discord.ext.tasks loop.  Every Create and every Update carries a new EEW
\* object; objects and versions are numbered by d_gen as they arrive.

Registered == {i \in Ids : d_alerts[i] # NoSet}

\* messages[0] of a non-empty list of messages
Primary(msgs) == CHOOSE c \in msgs : \A c2 \in msgs : c <= c2

\* send_eew(eew) up to `await EEWMessages.send(...)`: the client calls it
\* for an id it has not announced.
send_eew_begin(id) ==
    /\ d_send = NoSend
    /\ d_alerts[id] = NoSet
    /\ d_gen < MaxGen
    /\ d_gen' = d_gen + 1
    /\ d_send' = [id |-> id, ver |-> d_gen + 1]
    /\ UNCHANGED <<d_alerts, d_loop, d_stop, d_end, d_iter, d_edit>>

\* `if not self.update_eew_messages_loop.is_running()`
is_running == d_loop # "none"

\* EEWMessages.send returns with the messages of the channels that accepted
\* (filter(None, ...)); send_eew stores the object and starts the loop if it
\* is not running.
send_eew_end ==
    /\ d_send # NoSend
    /\ \E acc \in SUBSET Channels :
        d_alerts' = [d_alerts EXCEPT ![d_send.id] =
            [o |-> d_send.ver, ver |-> d_send.ver, map |-> 0, msgs |-> acc, ups |-> 0]]
    /\ d_send' = NoSend
    /\ IF ~is_running
       THEN d_loop' = "sleep" /\ d_end' = "none"
       ELSE UNCHANGED <<d_loop, d_end>>
    /\ UNCHANGED <<d_gen, d_stop, d_iter, d_edit>>

\* update_eew(eew): send_eew when the id is not stored, else
\* update_eew_data: replace eew, reset map_url.
update_eew(id) ==
    /\ d_send = NoSend
    /\ d_gen < MaxGen
    /\ d_gen' = d_gen + 1
    /\ IF d_alerts[id] = NoSet
       THEN /\ d_send' = [id |-> id, ver |-> d_gen + 1]
            /\ UNCHANGED d_alerts
       ELSE /\ d_alerts' = [d_alerts EXCEPT ![id] =
                [@ EXCEPT !.ver = d_gen + 1, !.map = 0, !.ups = 0]]
            /\ UNCHANGED d_send
    /\ UNCHANGED <<d_loop, d_stop, d_end, d_iter, d_edit>>

\* lift_eew(eew): self.alerts.pop(eew.id, None)
lift_eew(id) ==
    /\ d_send = NoSend
    /\ d_alerts' = [d_alerts EXCEPT ![id] = NoSet]
    /\ UNCHANGED <<d_gen, d_send, d_loop, d_stop, d_end, d_iter, d_edit>>

\* The loop task ends with the exception e (or returns: "stopped").
LoopEnds(e) ==
    /\ d_loop' = "none"
    /\ d_stop' = FALSE
    /\ d_end' = e
    /\ d_edit' = NoEdit

\* The sleep between two iterations ends: the task returns if stop() was
\* called, else the body starts: stop() and return on an empty registry,
\* else iter(self.alerts.values()).
loop_wake ==
    /\ d_loop = "sleep"
    /\ IF d_stop
       THEN LoopEnds("stopped") /\ UNCHANGED d_iter
       ELSE IF Registered = {}
       THEN d_stop' = TRUE /\ UNCHANGED <<d_loop, d_end, d_edit, d_iter>>
       ELSE /\ d_loop' = "iter"
            /\ d_iter' = [size |-> Cardinality(Registered), last |-> 0]
            /\ UNCHANGED <<d_stop, d_end, d_edit>>
    /\ UNCHANGED <<d_alerts, d_gen, d_send>>

\* faulty variant of NeedsUpload: the map is attached on every edit
NeedsUploadAlways(m) == TRUE

\* `if not self.map_url`
NeedsUpload(m) == m.map = 0

\* The for loop asks the iterator for the next EEWMessages (RuntimeError if
\* the dict changed size; entries come in insertion order) and calls its
\* edit(), up to the first await.
loop_next ==
    /\ d_loop = "iter"
    /\ IF Cardinality(Registered) # d_iter.size
       THEN LoopEnds("runtime_error") /\ UNCHANGED d_iter
       ELSE LET rest == {i \in Registered : d_alerts[i].o > d_iter.last} IN
            IF rest = {}
            THEN d_loop' = "sleep" /\ UNCHANGED <<d_stop, d_end, d_edit, d_iter>>
            ELSE LET id == CHOOSE i \in rest : \A j \in rest : d_alerts[i].o <= d_alerts[j].o
                     m == d_alerts[id] IN
                 IF m.msgs = {}
                 THEN LoopEnds("index_error") /\ UNCHANGED d_iter
                 ELSE /\ d_edit' = [id |-> id, o |-> m.o, ver |-> m.ver,
                                    msgs |-> m.msgs, up |-> NeedsUpload(m)]
                      /\ d_loop' = IF NeedsUpload(m) THEN "upload" ELSE "gather"
                      /\ UNCHANGED <<d_stop, d_end, d_iter>>
    /\ UNCHANGED <<d_alerts, d_gen, d_send>>

\* `m = await self.messages[0].edit(..., file=...)` ends: with the message
\* (map_url is set on the object being edited), with an exception that ends
\* the loop task, or with one of the exceptions the loop retries after.
upload_done ==
    /\ d_loop = "upload"
    /\ \E r \in {"ok", "http_error", "network_error"} :
        CASE r = "ok" ->
            /\ d_loop' = "gather"
            /\ d_alerts' =
                IF d_alerts[d_edit.id].o = d_edit.o
                THEN [d_alerts EXCEPT ![d_edit.id] =
                        [@ EXCEPT !.map = d_edit.ver,
                                  !.ups = IF d_alerts[d_edit.id].ver = d_edit.ver
                                          THEN @ + 1 ELSE @]]
                ELSE d_alerts
            /\ UNCHANGED <<d_stop, d_end, d_edit>>
          [] r = "http_error" ->
            /\ LoopEnds("edit_error")
            /\ UNCHANGED d_alerts
          [] OTHER ->
            /\ d_loop' = "sleep"
            /\ d_edit' = NoEdit
            /\ UNCHANGED <<d_alerts, d_stop, d_end>>
    /\ UNCHANGED <<d_gen, d_send, d_iter>>

\* The gather of the _edit_singal_message calls ends (each of them catches
\* its own exception): edit() returns to the for loop.
gather_done ==
    /\ d_loop = "gather"
    /\ d_loop' = "iter"
    /\ d_iter' = [d_iter EXCEPT !.last = d_edit.o]
    /\ d_edit' = NoEdit
    /\ UNCHANGED <<d_alerts, d_gen, d_send, d_stop, d_end>>

DiscordNext ==
    \/ \E id \in Ids : send_eew_begin(id) /\ UNCHANGED <<vars, rvars, svars>>
    \/ send_eew_end /\ UNCHANGED <<vars, rvars, svars>>
    \/ \E id \in Registered : update_eew(id) /\ UNCHANGED <<vars, rvars, svars>>
    \/ \E id \in Registered : lift_eew(id) /\ UNCHANGED <<vars, rvars, svars>>
    \/ loop_wake /\ UNCHANGED <<vars, rvars, svars>>
    \/ loop_next /\ UNCHANGED <<vars, rvars, svars>>
    \/ upload_done /\ UNCHANGED <<vars, rvars, svars>>
    \/ gather_done /\ UNCHANGED <<vars, rvars, svars>>

DiscordSpec == Init /\ [][DiscordNext]_<<vars, dvars, rvars, svars>>

\* ------------------------------------------------------------------------
\* EEWMessages.intensity_embed (src/src/notify/discord.py), for one region
\* of city_max_intensity.

\* int(x) of a timestamp x >= 0, given in units of 1/Res second
int(x) == x \div Res

\* math.isfinite(ping)
isfinite(p) == p # Inf

\* current_time = int(datetime.now().timestamp() + (ping if math.isfinite(ping) else 0))
CurrentTime(now, ping) == int(now + (IF isfinite(ping) THEN ping ELSE 0))

\* The text of the region: left out unless intensity.value > 0, else the
\* countdown if int(s_time) > current_time, else "arrived".
Render(e, cur) ==
    IF ~(e.value > 0) THEN "none"
    ELSE IF int(e.s_time) > cur THEN "pending" ELSE "arrived"

\* EEWMessages is given an eew (__init__, update_eew_data): a new version,
\* not rendered yet.
set_eew(e) ==
    /\ r_eew' = e
    /\ r_shown' = "none"
    /\ UNCHANGED <<r_now, r_ping, r_cur>>

\* A heartbeat is acknowledged, or the connection is lost: bot.latency
\* changes.
heartbeat(p) ==
    /\ p # r_ping
    /\ r_ping' = p
    /\ UNCHANGED <<r_now, r_cur, r_shown, r_eew>>

\* A tick of the refresh loop, a second or more after the one before, calls
\* intensity_embed() at the time now.
intensity_embed(now) ==
    /\ now >= r_now + Res
    /\ r_now' = now
    /\ r_cur' = CurrentTime(now, r_ping)
    /\ r_shown' = Render(r_eew, CurrentTime(now, r_ping))
    /\ UNCHANGED <<r_ping, r_eew>>

RenderNext ==
    \/ \E e \in [s_time : 0..MaxTime, value : 0..1] :
        set_eew(e) /\ UNCHANGED <<vars, dvars, svars>>
    \/ \E p \in 0..MaxPing \cup {Inf} : heartbeat(p) /\ UNCHANGED <<vars, dvars, svars>>
    \/ \E now \in 0..MaxTime : intensity_embed(now) /\ UNCHANGED <<vars, dvars, svars>>

RenderSpec == Init /\ [][RenderNext]_<<vars, dvars, rvars, svars>>

\* ------------------------------------------------------------------------
\* Two instances of DiscordNotification (src/src/notify/discord.py) and of
\* LineNotification (src/src/notification/line.py).  `alerts` and
\* `notification_channels` are attributes of the class and no __init__ binds
\* them on the instance: self.alerts and self.notification_channels of
\* every instance are the objects of the class.

\* self.alerts of the DiscordNotification instance i
AlertsOf(i) == s_alerts

\* self.notification_channels of the DiscordNotification instance i
ChannelsOf(i) == s_channels

\* self.notification_channels of the LineNotification instance i
LineChannelsOf(i) == s_line

InList(l) == {l[k] : k \in DOMAIN l}

\* LineNotification.__init__ of instance i appends the channels of its
\* configuration to self.notification_channels.
line_init(i) ==
    /\ i \notin InList(LineChannelsOf(i))
    /\ s_line' = Append(LineChannelsOf(i), i)
    /\ s_by' = i /\ s_op' = "__init__"
    /\ UNCHANGED <<s_alerts, s_channels>>

\* on_ready of instance i appends the channels of its configuration to
\* self.notification_channels.
on_ready(i) ==
    /\ i \notin InList(ChannelsOf(i))
    /\ s_channels' = Append(ChannelsOf(i), i)
    /\ s_by' = i /\ s_op' = "on_ready"
    /\ UNCHANGED <<s_alerts, s_line>>

\* send_eew of instance i: self.alerts[eew.id] = m
shared_send_eew(i, id, serial) ==
    /\ s_alerts' = [AlertsOf(i) EXCEPT ![id] = [by |-> i, serial |-> serial]]
    /\ s_by' = i /\ s_op' = "send_eew"
    /\ UNCHANGED <<s_channels, s_line>>

\* update_eew of instance i: send_eew if self.alerts.get(eew.id) is None,
\* else update_eew_data of the EEWMessages found
shared_update_eew(i, id, serial) ==
    /\ s_alerts' = [AlertsOf(i) EXCEPT ![id] =
            IF @ = NoEntry THEN [by |-> i, serial |-> serial]
            ELSE [@ EXCEPT !.serial = serial]]
    /\ s_by' = i /\ s_op' = "update_eew"
    /\ UNCHANGED <<s_channels, s_line>>

\* lift_eew of instance i: self.alerts.pop(eew.id, None)
shared_lift_eew(i, id) ==
    /\ s_alerts' = [AlertsOf(i) EXCEPT ![id] = NoEntry]
    /\ s_by' = i /\ s_op' = "lift_eew"
    /\ UNCHANGED <<s_channels, s_line>>

SharedNext ==
    \/ \E i \in Instances : line_init(i) /\ UNCHANGED <<vars, dvars, rvars>>
    \/ \E i \in Instances : on_ready(i) /\ UNCHANGED <<vars, dvars, rvars>>
    \/ \E i \in Instances, id \in Ids, serial \in Serials :
        shared_send_eew(i, id, serial) /\ UNCHANGED <<vars, dvars, rvars>>
    \/ \E i \in Instances, id \in Ids, serial \in Serials :
        shared_update_eew(i, id, serial) /\ UNCHANGED <<vars, dvars, rvars>>
    \/ \E i \in Instances, id \in Ids :
        shared_lift_eew(i, id) /\ UNCHANGED <<vars, dvars, rvars>>

SharedSpec == Init /\ [][SharedNext]_<<vars, dvars, rvars, svars>>

\* ------------------------------------------------------------ properties

\* The step broadcasts an event.
Emits == Len(emitted') = Len(emitted) + 1

Last(q) == q[Len(q)]

\* The step is one iteration of the for loop over data.
DiffStep == pc = "diff" /\ (pc' # pc \/ idx' # idx)

Lifted(id) == \E i \in DOMAIN emitted : emitted[i].kind = "lift" /\ emitted[i].id = id

\* C1: at most one fetch task is in flight at any moment, and a fetch task
\* is created only by a tick that finds no task or a finished one; a tick
\* that finds the task running creates none.
C1_OneFetchInFlight ==
    /\ [](inflight <= 1)
    /\ [][inflight' > inflight => task \in {"MISSING", "done"}]_vars

\* The one fetch task is in the middle of a broadcast, with a handler still
\* running: every tick that comes now finds it pending.
C1_Witness ==
    /\ task = "pending" /\ inflight = 1 /\ pc = "gather"
    /\ \E b \in Backends : calls[b] = "running"

\* C2: per id the events go new, update*, lift: an update or a lift is
\* broadcast only for an id whose new was broadcast with no lift since, and
\* a new only for an id with no such new.
C2_NewBeforeUpdateAndLift ==
    [][Emits =>
        LET e == Last(emitted') IN
        IF e.kind = "new" THEN ~announced[e.id] ELSE announced[e.id]]_vars

\* One poll has broadcast an update for one id and a lift for another.
C2_Witness ==
    /\ \E i \in DOMAIN emitted : emitted[i].kind = "update"
    /\ \E i \in DOMAIN emitted : emitted[i].kind = "lift"

C4_EmptyLiftsAll ==
    (pc = "done" /\ outcome = "empty") =>
        /\ Known(alerts) = {}
        /\ \A id \in Known(start) : Lifted(id)

\* C5: after a completed poll whose fetch succeeded the known set mirrors
\* the snapshot: same ids, the snapshot's serials, and every id known
\* before and absent from the snapshot removed with exactly one lift.
C5_MirrorsSnapshot ==
    (pc = "done" /\ outcome \in {"ok", "empty", "record_error"}) =>
        /\ Known(alerts) = IdsOf(data)
        /\ \A i \in DOMAIN data : alerts[data[i].id] = data[i].serial
        /\ \A id \in Known(start) \ IdsOf(data) :
            Cardinality({i \in DOMAIN emitted :
                emitted[i].kind = "lift" /\ emitted[i].id = id}) = 1

\* The poll is past its fetch and every attempt of it raised.
AllAttemptsFailed == pc \notin {"idle", "get"} /\ fails = attempts

\* C6: a poll whose attempts all failed leaves the known set as it was when
\* the poll began and broadcasts nothing; the fetch itself never touches the
\* set, so the next diff starts from it.
C6_FailedPollNoMutation ==
    /\ AllAttemptsFailed => (alerts = start /\ emitted = <<>>)
    /\ pc = "get" => alerts = start

\* A poll has exhausted its retries while alerts are known.
C6_Witness == pc = "done" /\ outcome = "exhausted" /\ Known(alerts) # {}

\* C7, as amended: a poll makes at most Retry + 1 = 4 attempts (the first
\* and 3 retries); after the 4th consecutive failure it has returned and
\* has broadcast nothing, while before that it is still fetching.
C7_AtMostFourAttempts ==
    /\ attempts <= Retry + 1
    /\ fails = Retry + 1 => (pc = "done" /\ outcome = "exhausted" /\ emitted = <<>>)
    /\ (fails = attempts /\ fails <= Retry /\ pc # "idle") => pc = "get"

\* The 4th attempt of a poll has failed.
C7_Witness == fails = Retry + 1 /\ attempts = Retry + 1 /\ pc = "done"

\* C7, as claimed: a poll makes at most 3 attempts, and after 3 consecutive
\* failures it has returned without a broadcast.
C7_AtMostThreeAttempts ==
    /\ attempts <= Retry
    /\ fails = Retry => (pc = "done" /\ emitted = <<>>)

\* C8: the await of a broadcast ends only when the handler of every client
\* has returned or raised, and never by handing a handler's exception to
\* the fetch task.
C8_BackendIsolation ==
    [][(pc = "gather" /\ pc' # "gather") =>
        /\ \A b \in Backends : calls[b] \in {"returned", "raised"}
        /\ outcome' # "backend_error"
        /\ pc' \in {"diff", "lift"}]_vars

\* In one broadcast a handler has raised and another has returned.
C8_Witness ==
    /\ pc = "gather"
    /\ \E b1, b2 \in Backends : calls[b1] = "raised" /\ calls[b2] = "returned"

\* C9: a completed poll whose fetch returned entries has gone through all
\* of them and through every known id absent from the snapshot, whether or
\* not the record of an entry could be built.
C9_MalformedEntrySkipped ==
    (pc = "done" /\ data # <<>>) =>
        /\ idx = Len(data) + 1
        /\ finished = {}
        /\ \A id \in Known(start) \ IdsOf(data) : alerts[id] = 0 /\ Lifted(id)

\* C10: whenever the fetch task has ended, however it ended, a later tick
\* starts a new one.
C10_LoopKeepsPolling == [](task = "done" => <>(task = "pending"))

\* A fetch task has ended with the exception of a record construction.
C10_Witness == task = "done" /\ outcome = "record_error" /\ emitted # <<>>

\* C16: while an event is being broadcast the known set already holds its
\* effect: the record of a new or an update is stored under the id with the
\* event's serial, and the id of a lift is gone, from before the first
\* handler runs until the last has finished.
C16_StoredBeforeDispatch ==
    pc = "gather" =>
        IF event.kind = "lift"
        THEN alerts[event.id] = 0
        ELSE alerts[event.id] = event.serial

\* An update is being broadcast, no handler has run yet, and the known set
\* already holds the new serial.
C16_Witness ==
    /\ pc = "gather" /\ event.kind = "update"
    /\ \A b \in Backends : calls[b] = "running"
    /\ alerts[event.id] = event.serial /\ start[event.id] # event.serial

\* C17: every update that is broadcast has first cancelled the computation
\* of the record it replaces and only then started the computation of the
\* new record; nothing is left out and nothing else is done.
C17_CancelBeforeStart ==
    (pc = "gather" /\ event.kind = "update") =>
        calc_ops = <<[op |-> "cancel", serial |-> start[event.id]],
                     [op |-> "start", serial |-> event.serial]>>

\* An update is being broadcast after the computation of the old serial
\* was cancelled and that of the new serial started.
C17_Witness ==
    /\ pc = "gather" /\ event.kind = "update" /\ Len(calc_ops) = 2
    /\ calc_ops[1].op = "cancel" /\ calc_ops[2].serial = alerts[event.id]

\* C18: as long as the handler of one client has not finished, the fetch
\* task stays in the await of that broadcast: no later entry is diffed, no
\* other event is broadcast, the task does not end and no fetch is started.
C18_BroadcastJoins ==
    [][(\E b \in Backends : calls[b] = "running") =>
        /\ pc' = "gather" /\ event' = event /\ idx' = idx
        /\ emitted' = emitted /\ alerts' = alerts
        /\ task' = "pending" /\ inflight' = inflight]_vars

\* One handler has returned, the other has not, and entries of the snapshot
\* are still waiting to be diffed.
C18_Witness ==
    /\ pc = "gather" /\ idx < Len(data)
    /\ \E b1, b2 \in Backends : calls[b1] = "returned" /\ calls[b2] = "running"

\* ------------------------------------------------ properties of DiscordSpec

\* The messages an awaited EEWMessages.edit has an edit call in flight for:
\* messages[0] during the upload; after it messages[1:], or all of them when
\* map_url was already set.
Issued ==
    IF d_loop = "upload" THEN {Primary(d_edit.msgs)}
    ELSE IF d_loop = "gather"
         THEN IF d_edit.up THEN d_edit.msgs \ {Primary(d_edit.msgs)} ELSE d_edit.msgs
         ELSE {}

\* A step in which EEWMessages.edit issues edit calls
IssuesEdits == d_loop' \in {"upload", "gather"} /\ d_loop' # d_loop /\ Issued' # {}

\* C11: after lift_eew(id) has returned the set of id is out of the registry
\* and no edit of one of its messages is issued any more, also not by a
\* refresh that was iterating or awaiting an edit when the lift arrived:
\* whenever edits are issued, the object they belong to is in the registry.
C11_NoEditAfterLift ==
    [][IssuesEdits => d_alerts'[d_edit'.id].o = d_edit'.o]_<<vars, dvars>>

\* C12: while at least one set is registered the refresh loop is running.
C12_LoopRunsWhileRegistered == Registered # {} => is_running

\* C13: for every set and every version the map is uploaded at most once:
\* no upload is awaited for a version whose map has been uploaded.
C13_UploadAtMostOnce ==
    /\ \A i \in Ids : d_alerts[i].ups <= 1
    /\ (d_loop = "upload" /\ d_alerts[d_edit.id].o = d_edit.o
            /\ d_alerts[d_edit.id].ver = d_edit.ver)
        => d_alerts[d_edit.id].ups = 0 /\ d_alerts[d_edit.id].map = 0

\* C13 witness: a later tick edits every message of a set through the cached
\* reference, after the one upload of the version.
C13_Witness ==
    /\ d_loop = "gather" /\ ~d_edit.up /\ Cardinality(d_edit.msgs) > 1
    /\ d_alerts[d_edit.id].o = d_edit.o
    /\ d_alerts[d_edit.id].ups = 1 /\ d_alerts[d_edit.id].map = d_edit.ver

\* C14: a failing edit of one message, the primary one with the map attached
\* included, does not prevent the edits of the other messages of the set,
\* the refresh of the other sets or the later ticks: when the edit of the
\* primary message ends, the remaining edits of the set are issued.
C14_EditFailureIsolated ==
    [][d_loop = "upload" => d_loop' \in {"upload", "gather"}]_<<vars, dvars>>

\* C19: whenever map_url of a registered set is set, it refers to the map
\* uploaded for the set's current version.
C19_MapRefIsCurrent ==
    \A i \in Ids : d_alerts[i].map \in {0, d_alerts[i].ver}

\* ------------------------------------------------- properties of RenderSpec

\* C15: at every rendering the region is shown as pending exactly if its
\* integer arrival time is greater than the current time of the rendering
\* (arrived on a tie), and a region shown as arrived is not shown as pending
\* at a later tick of the same version.
C15_CountdownNeverBack ==
    [][/\ r_shown' = "pending" <=> (r_eew'.value > 0 /\ r_shown' # "none"
                                    /\ int(r_eew'.s_time) > r_cur')
       /\ r_shown = "arrived" => r_shown' # "pending"]_rvars

\* ------------------------------------------------- properties of SharedSpec

\* C20: a send_eew, update_eew or lift_eew run by one instance does not
\* add, replace or remove an entry of the registry, or of the destination
\* list, of another instance.
C20_RegistryOwned ==
    [][\A j \in Instances :
        (j # s_by' /\ s_op' \in {"send_eew", "update_eew", "lift_eew"}) =>
            /\ AlertsOf(j)' = AlertsOf(j)
            /\ ChannelsOf(j)' = ChannelsOf(j)
            /\ LineChannelsOf(j)' = LineChannelsOf(j)]_svars

\* C21 (DiscordSpec): send_eew registers the set with the messages of the
\* channels that accepted, also when there is none, and a tick over a set
\* whose list of messages is empty does not raise: the loop task does not
\* end on self.messages[0].
C21_EmptySetRefreshed ==
    [][/\ (d_send # NoSend /\ d_send' = NoSend) =>
            (d_alerts'[d_send.id].o = d_send.ver /\ d_alerts'[d_send.id].msgs \subseteq Channels)
       /\ d_end' # "index_error"]_<<vars, dvars>>

============================================================================
